---------------------------- MODULE Spec2Model ----------------------------
(***************************************************************************)
(* Order service (src/order-service/app.py): the order store, the upstream *)
(* client (fetch_user, send_notification) and the request handlers         *)
(* create_order, get_order, list_orders, update_order, delete_order.       *)
(*                                                                         *)
(* Every request runs in its own thread with its own SQLite connection, so *)
(* a handler is a sequence of steps, one per statement that touches the    *)
(* store or per upstream call; steps of different requests interleave.     *)
(***************************************************************************)
EXTENDS Integers, Sequences, FiniteSets, TLC

(***************************************************************************)
(* Bounds of the model.                                                    *)
(***************************************************************************)
\* Number of requests that can be in flight at the same time.
NumReq == 2
\* Largest order identifier the store hands out (caps AUTOINCREMENT).
MaxOrders == 2
\* Largest value of the clock read by utc_now_iso.
MaxTime == 1

Req == 1..NumReq

(***************************************************************************)
(* JSON values as Python sees them after request.get_json.  One record     *)
(* shape for every kind:                                                   *)
(*   null   None (a missing key and an explicit null look the same to      *)
(*          body.get)                                                      *)
(*   int    the integer n                                                  *)
(*   big    the integer 9223372036854775808 (2^63), one more than SQLite's *)
(*          INTEGER can hold                                               *)
(*   float  the number n + 0.5, n >= 0                                     *)
(*   inf    float infinity (the JSON text 1e999 parses to it)              *)
(*   bool   True (n = 1) or False (n = 0)                                  *)
(*   str    the text s, a sequence of one-character strings                *)
(*   array  a list of n elements                                           *)
(***************************************************************************)
J(k, n, s) == [k |-> k, n |-> n, s |-> s]
JNull == J("null", 0, <<>>)
JInt(n) == J("int", n, <<>>)
JBig == J("big", 0, <<>>)
JFloat(n) == J("float", n, <<>>)
JInf == J("inf", 0, <<>>)
JBool(b) == J("bool", IF b THEN 1 ELSE 0, <<>>)
JStr(s) == J("str", 0, s)
JArr(n) == J("array", n, <<>>)

\* Python's truth value of a JSON value (the `x or ""` and `not x` tests).
Truthy(v) ==
    CASE v.k = "null" -> FALSE
      [] v.k = "int" -> v.n # 0
      [] v.k = "bool" -> v.n # 0
      [] v.k = "str" -> v.s # <<>>
      [] v.k = "array" -> v.n # 0
      [] OTHER -> TRUE

Whitespace == {" "}
Digits == <<"0", "1", "2", "3", "4", "5", "6", "7", "8", "9">>
DigitSet == {Digits[i] : i \in 1..Len(Digits)}
DigitVal(c) == (CHOOSE i \in 1..Len(Digits) : Digits[i] = c) - 1

RECURSIVE LStrip(_)
LStrip(s) ==
    IF s # <<>> /\ Head(s) \in Whitespace THEN LStrip(Tail(s)) ELSE s

RECURSIVE RStrip(_)
RStrip(s) ==
    IF s # <<>> /\ s[Len(s)] \in Whitespace
    THEN RStrip(SubSeq(s, 1, Len(s) - 1))
    ELSE s

\* str.strip()
PyStrip(s) == RStrip(LStrip(s))

(***************************************************************************)
(* Python integers: arbitrary precision.  big marks the one value of the   *)
(* model that lies outside the signed 64-bit range (2^63); otherwise n.    *)
(***************************************************************************)
PInt(n) == [big |-> FALSE, n |-> n]
PBig == [big |-> TRUE, n |-> 0]
\* x <= 0
PLeqZero(x) == ~x.big /\ x.n <= 0

RECURSIVE DigitsValue(_)
DigitsValue(s) ==
    IF s = <<>> THEN 0
    ELSE 10 * DigitsValue(SubSeq(s, 1, Len(s) - 1)) + DigitVal(s[Len(s)])

AllDigits(s) == s # <<>> /\ \A i \in 1..Len(s) : s[i] \in DigitSet

\* int(text): surrounding whitespace, an optional sign, decimal digits.
ParseInt(s) ==
    LET t == PyStrip(s)
        signed == t # <<>> /\ Head(t) \in {"+", "-"}
        d == IF signed THEN Tail(t) ELSE t
    IN  IF AllDigits(d)
        THEN [tag |-> "ok",
              val |-> PInt(IF signed /\ Head(t) = "-"
                           THEN 0 - DigitsValue(d) ELSE DigitsValue(d))]
        ELSE [tag |-> "ValueError", val |-> PInt(0)]

\* int(v) for a JSON value v that is not None: the value, or the exception.
PyInt(v) ==
    CASE v.k = "int" -> [tag |-> "ok", val |-> PInt(v.n)]
      [] v.k = "big" -> [tag |-> "ok", val |-> PBig]
      [] v.k = "bool" -> [tag |-> "ok", val |-> PInt(v.n)]
      [] v.k = "float" -> [tag |-> "ok", val |-> PInt(v.n)]
      [] v.k = "inf" -> [tag |-> "OverflowError", val |-> PInt(0)]
      [] v.k = "str" -> ParseInt(v.s)
      [] OTHER -> [tag |-> "TypeError", val |-> PInt(0)]

RECURSIVE NatDigits(_)
NatDigits(n) ==
    IF n < 10 THEN <<Digits[n + 1]>>
    ELSE NatDigits(n \div 10) \o <<Digits[(n % 10) + 1]>>

BigDigits ==
    <<"9", "2", "2", "3", "3", "7", "2", "0", "3", "6", "8", "5", "4", "7",
      "7", "5", "8", "0", "8">>

\* str(v) for a JSON value v that is not None.
PyStr(v) ==
    CASE v.k = "str" -> v.s
      [] v.k = "int" ->
            IF v.n < 0 THEN <<"-">> \o NatDigits(0 - v.n) ELSE NatDigits(v.n)
      [] v.k = "big" -> BigDigits
      [] v.k = "float" -> NatDigits(v.n) \o <<".", "5">>
      [] v.k = "inf" -> <<"i", "n", "f">>
      [] v.k = "bool" ->
            IF v.n = 1 THEN <<"T", "r", "u", "e">>
            ELSE <<"F", "a", "l", "s", "e">>
      [] OTHER -> IF v.n = 0 THEN <<"[", "]">> ELSE <<"[", "1", "]">>


(***************************************************************************)
(* The order store: the rows of table orders and the AUTOINCREMENT counter *)
(* (sqlite_sequence).  user_id and amount are SQLite INTEGERs.             *)
(***************************************************************************)
Row(id, user_id, item, amount, status, created_at) ==
    [id |-> id, user_id |-> user_id, item |-> item, amount |-> amount,
     status |-> status, created_at |-> created_at]

\* fetchone() returning None.
NoRow == Row(0, 0, <<>>, 0, <<>>, 0)

\* SELECT ... FROM orders WHERE id = ?  (fetchone)
SelectById(store, id) ==
    IF \E o \in store : o.id = id
    THEN CHOOSE o \in store : o.id = id
    ELSE NoRow

\* The text "created" of the status column on insert.
StatusCreated == <<"c", "r", "e", "a", "t", "e", "d">>

(***************************************************************************)
(* HTTP responses of the order service.  order is the JSON object of a     *)
(* row (NoRow: none), list the JSON array of list_orders,                  *)
(* notification_sent is "absent" when the key is not in the body, and      *)
(* notification_error is NoErr when that key is not in the body.           *)
(***************************************************************************)
NoErr == [msg |-> "", code |-> 0]

Response(code, error, message) ==
    [code |-> code, error |-> error, message |-> message, order |-> NoRow,
     list |-> <<>>, notification_sent |-> "absent",
     notification_error |-> NoErr]

NoResponse == Response(0, "", "")

BadRequest(message) == Response(400, "Bad Request", message)
NotFound(message) == Response(404, "Not Found", message)

(***************************************************************************)
(* Exceptions reaching the error handler: the two upstream exceptions and  *)
(* any other exception, by its Python class name.  The message of a 500 is *)
(* str(err); the class name stands for it.  The details, status_code and   *)
(* body keys of the 503 and 502 bodies are left out.                       *)
(***************************************************************************)
handle_error(err) ==
    CASE err = "UpstreamUnavailable" ->
            Response(503, "Service Unavailable", "user-service is unavailable.")
      [] err = "UpstreamBadResponse" ->
            Response(502, "Bad Gateway",
                     "user-service returned an unexpected response.")
      [] OTHER -> Response(500, "Internal Server Error", err)

(***************************************************************************)
(* Upstream client.  What the remote end does is the environment's choice: *)
(* the call fails in transport (connection error, timeout: a               *)
(* requests.RequestException), or completes with a status code and a body. *)
(* A 200 body of the user service is a JSON object ("object"); other       *)
(* servers behind the same URL may answer 200 with the JSON value null     *)
(* ("null"), another JSON value such as a list ("json_other") or text that *)
(* is not JSON ("not_json").                                               *)
(***************************************************************************)
Outcome(t, code, body) == [t |-> t, code |-> code, body |-> body]
NoOutcome == Outcome("none", 0, "")

UserOutcomes ==
    {Outcome("transport", 0, ""), Outcome("http", 404, "object"),
     Outcome("http", 500, "not_json"), Outcome("http", 200, "object"),
     Outcome("http", 200, "null"), Outcome("http", 200, "json_other"),
     Outcome("http", 200, "not_json")}

\* fetch_user without its test for 404: a 404 is one more unexpected status.
fetch_user_no_absent(o) ==
    IF o.t = "transport" THEN [tag |-> "raise", err |-> "UpstreamUnavailable"]
    ELSE IF o.code # 200 THEN [tag |-> "raise", err |-> "UpstreamBadResponse"]
    ELSE IF o.body = "not_json" THEN [tag |-> "raise", err |-> "JSONDecodeError"]
    ELSE IF o.body = "null" THEN [tag |-> "None", err |-> ""]
    ELSE [tag |-> "user", err |-> ""]

\* fetch_user: what it returns ("user": resp.json(), "None") or raises.
fetch_user(o) ==
    IF o.t = "transport" THEN [tag |-> "raise", err |-> "UpstreamUnavailable"]
    ELSE IF o.code = 404 THEN [tag |-> "None", err |-> ""]
    ELSE IF o.code # 200 THEN [tag |-> "raise", err |-> "UpstreamBadResponse"]
    ELSE IF o.body = "not_json" THEN [tag |-> "raise", err |-> "JSONDecodeError"]
    ELSE IF o.body = "null" THEN [tag |-> "None", err |-> ""]
    ELSE [tag |-> "user", err |-> ""]

\* Transport failures carry the text of the exception, str(exc).
NotifyOutcomes ==
    {Outcome("transport", 0, "ConnectionError"), Outcome("http", 200, "object"),
     Outcome("http", 201, "object"), Outcome("http", 500, "not_json")}

\* send_notification returning (False, None) for an unexpected status.
send_notification_no_detail(o) ==
    IF o.t = "transport" THEN [ok |-> FALSE, err |-> [msg |-> o.body, code |-> 0]]
    ELSE IF o.code \notin {200, 201} THEN [ok |-> FALSE, err |-> NoErr]
    ELSE [ok |-> TRUE, err |-> NoErr]

\* send_notification: the pair (ok, err).
send_notification(o) ==
    IF o.t = "transport" THEN [ok |-> FALSE, err |-> [msg |-> o.body, code |-> 0]]
    ELSE IF o.code \notin {200, 201}
    THEN [ok |-> FALSE, err |-> [msg |-> "Unexpected status", code |-> o.code]]
    ELSE [ok |-> TRUE, err |-> NoErr]

\* `if err:` on the error text.
ErrTruthy(err) == err.msg # ""

(***************************************************************************)
(* Request bodies, as request.get_json(silent=True) hands them over:       *)
(*   "unparsable"  no JSON could be read: None                             *)
(*   "falsy"       a JSON value that is not an object and is false in      *)
(*                 Python: [], "", 0, false, null                          *)
(*   "other"       a JSON value that is not an object and is true in       *)
(*                 Python: [1], "x", 7, true                               *)
(*   "object"      a JSON object; a key it lacks reads as null             *)
(***************************************************************************)
Body(kind, user_id, item, amount, status) ==
    [kind |-> kind, user_id |-> user_id, item |-> item, amount |-> amount,
     status |-> status]

EmptyObject == Body("object", JNull, JNull, JNull, JNull)
NoBody == Body("unparsable", JNull, JNull, JNull, JNull)

\* request.get_json(silent=True) or {}
JsonOrEmpty(raw) ==
    IF raw.kind \in {"unparsable", "falsy"} THEN EmptyObject ELSE raw

(***************************************************************************)
(* create_order up to the user check: either the response that ends the    *)
(* request, or the three values the rest of the handler works with.        *)
(***************************************************************************)
Ended(resp) ==
    [tag |-> "ended", resp |-> resp, user_id_int |-> PInt(0), item |-> <<>>,
     amount_int |-> PInt(0)]

CreateAmount(item, user_id_int, amount) ==
    LET a == PyInt(amount)
    IN  IF a.tag \in {"TypeError", "ValueError"}
        THEN Ended(BadRequest("Field 'amount' must be an integer."))
        ELSE IF a.tag # "ok" THEN Ended(handle_error(a.tag))
        ELSE IF PLeqZero(a.val)
        THEN Ended(BadRequest("Field 'amount' must be > 0."))
        ELSE [tag |-> "valid", resp |-> NoResponse,
              user_id_int |-> user_id_int, item |-> item,
              amount_int |-> a.val]

CreateFields(user_id, item, amount) ==
    IF user_id.k = "null" \/ item = <<>> \/ amount.k = "null"
    THEN Ended(BadRequest(
             "Fields 'user_id', 'item', and 'amount' are required."))
    ELSE LET u == PyInt(user_id)
         IN  IF u.tag \in {"TypeError", "ValueError"}
             THEN Ended(BadRequest("Field 'user_id' must be an integer."))
             ELSE IF u.tag # "ok" THEN Ended(handle_error(u.tag))
             ELSE CreateAmount(item, u.val, amount)

create_validate(raw) ==
    LET body == JsonOrEmpty(raw)
    IN  IF body.kind # "object" THEN Ended(handle_error("AttributeError"))
        ELSE IF Truthy(body.item) /\ body.item.k # "str"
        THEN Ended(handle_error("AttributeError"))
        ELSE CreateFields(body.user_id,
                          IF Truthy(body.item) THEN PyStrip(body.item.s)
                          ELSE <<>>,
                          body.amount)

(***************************************************************************)
(* update_order after the existence check: the field list, or the          *)
(* response that ends the request.                                         *)
(***************************************************************************)
Upd(has_status, status, has_item, item, has_amount, amount) ==
    [has_status |-> has_status, status |-> status, has_item |-> has_item,
     item |-> item, has_amount |-> has_amount, amount |-> amount]

NoUpd == Upd(FALSE, <<>>, FALSE, <<>>, FALSE, PInt(0))

UpdEnded(resp) == [tag |-> "ended", resp |-> resp, upd |-> NoUpd]

\* The amount of an update taken without the test for amount <= 0.
UpdateAmount_no_positive_test(upd, amount) ==
    IF amount.k = "null"
    THEN IF ~upd.has_status /\ ~upd.has_item
         THEN UpdEnded(BadRequest("No updatable fields provided."))
         ELSE [tag |-> "valid", resp |-> NoResponse, upd |-> upd]
    ELSE LET a == PyInt(amount)
         IN  IF a.tag \in {"TypeError", "ValueError"}
             THEN UpdEnded(BadRequest("Field 'amount' must be an integer."))
             ELSE IF a.tag # "ok" THEN UpdEnded(handle_error(a.tag))
             ELSE [tag |-> "valid", resp |-> NoResponse,
                   upd |-> [upd EXCEPT !.has_amount = TRUE,
                                       !.amount = a.val]]

\* The field list of an update sent to the store without the test that it
\* is not empty.
UpdateAmount_no_fields_test(upd, amount) ==
    IF amount.k = "null"
    THEN [tag |-> "valid", resp |-> NoResponse, upd |-> upd]
    ELSE LET a == PyInt(amount)
         IN  IF a.tag \in {"TypeError", "ValueError"}
             THEN UpdEnded(BadRequest("Field 'amount' must be an integer."))
             ELSE IF a.tag # "ok" THEN UpdEnded(handle_error(a.tag))
             ELSE IF PLeqZero(a.val)
             THEN UpdEnded(BadRequest("Field 'amount' must be > 0."))
             ELSE [tag |-> "valid", resp |-> NoResponse,
                   upd |-> [upd EXCEPT !.has_amount = TRUE,
                                       !.amount = a.val]]

UpdateAmount(upd, amount) ==
    IF amount.k = "null"
    THEN IF ~upd.has_status /\ ~upd.has_item
         THEN UpdEnded(BadRequest("No updatable fields provided."))
         ELSE [tag |-> "valid", resp |-> NoResponse, upd |-> upd]
    ELSE LET a == PyInt(amount)
         IN  IF a.tag \in {"TypeError", "ValueError"}
             THEN UpdEnded(BadRequest("Field 'amount' must be an integer."))
             ELSE IF a.tag # "ok" THEN UpdEnded(handle_error(a.tag))
             ELSE IF PLeqZero(a.val)
             THEN UpdEnded(BadRequest("Field 'amount' must be > 0."))
             ELSE [tag |-> "valid", resp |-> NoResponse,
                   upd |-> [upd EXCEPT !.has_amount = TRUE,
                                       !.amount = a.val]]

UpdateItem(upd, item, amount) ==
    IF item.k = "null" THEN UpdateAmount(upd, amount)
    ELSE IF PyStrip(PyStr(item)) = <<>>
    THEN UpdEnded(BadRequest("Field 'item' cannot be empty."))
    ELSE UpdateAmount([upd EXCEPT !.has_item = TRUE,
                                  !.item = PyStrip(PyStr(item))], amount)

update_validate(body) ==
    IF body.status.k = "null" THEN UpdateItem(NoUpd, body.item, body.amount)
    ELSE IF PyStrip(PyStr(body.status)) = <<>>
    THEN UpdEnded(BadRequest("Field 'status' cannot be empty."))
    ELSE UpdateItem([NoUpd EXCEPT !.has_status = TRUE,
                                  !.status = PyStrip(PyStr(body.status))],
                    body.item, body.amount)

\* An UPDATE that sets all three columns, the ones not supplied to empty.
ApplyUpdate_all_columns(store, id, upd) ==
    {IF o.id # id THEN o
     ELSE [o EXCEPT !.status = upd.status, !.item = upd.item,
                    !.amount = upd.amount.n] :
     o \in store}

\* UPDATE orders SET <fields> WHERE id = ?
ApplyUpdate(store, id, upd) ==
    {IF o.id # id THEN o
     ELSE [o EXCEPT
             !.status = IF upd.has_status THEN upd.status ELSE @,
             !.item = IF upd.has_item THEN upd.item ELSE @,
             !.amount = IF upd.has_amount THEN upd.amount.n ELSE @] :
     o \in store}

\* The rows in ascending order of identifier (no DESC).
RECURSIVE OrderByIdAsc(_)
OrderByIdAsc(store) ==
    IF store = {} THEN <<>>
    ELSE LET low == CHOOSE o \in store : \A p \in store : o.id <= p.id
         IN  <<low>> \o OrderByIdAsc(store \ {low})

\* SELECT ... FROM orders ORDER BY id DESC
RECURSIVE OrderByIdDesc(_)
OrderByIdDesc(store) ==
    IF store = {} THEN <<>>
    ELSE LET top == CHOOSE o \in store : \A p \in store : p.id <= o.id
         IN  <<top>> \o OrderByIdDesc(store \ {top})

(***************************************************************************)
(* Inputs the model draws from.                                            *)
(***************************************************************************)
CreateObject(user_id, item, amount) ==
    Body("object", user_id, item, amount, JNull)

UpdateObject(status, item, amount) ==
    Body("object", JNull, item, amount, status)

OtherBody == Body("other", JNull, JNull, JNull, JNull)

\* {"user_id": 1, "item": " w", "amount": 2} and its variations.
CreateBodies ==
    {CreateObject(JInt(1), JStr(<<" ", "w">>), a) :
        a \in {JInt(2), JInt(0), JFloat(1), JBig, JInf, JStr(<<"x">>), JNull}}
    \cup {CreateObject(JInt(1), i, JInt(2)) : i \in {JStr(<<" ">>), JInt(5)}}
    \cup {CreateObject(u, JStr(<<" ", "w">>), JInt(2)) :
            u \in {JStr(<<"x">>), JStr(<<" ", "1">>)}}
    \cup {CreateObject(JStr(<<"x">>), JStr(<<" ", "w">>), JInt(0)),
          CreateObject(JFloat(1), JStr(<<" ", "w">>), JInt(0)),
          NoBody, OtherBody}

UpdateBodies ==
    {UpdateObject(s, JNull, JNull) :
        s \in {JStr(<<"p", " ">>), JStr(<<" ">>), JInt(5)}}
    \cup {UpdateObject(JNull, i, JNull) : i \in {JStr(<<"x">>), JStr(<<>>)}}
    \cup {UpdateObject(JNull, JNull, a) :
            a \in {JInt(3), JInt(0), JFloat(1), JBig, JInf, JStr(<<"x">>)}}
    \cup {UpdateObject(JStr(<<"p", " ">>), JNull, a) :
            a \in {JInt(3), JInt(-1), JFloat(1)}}
    \cup {EmptyObject, NoBody, OtherBody}

\* The inputs of the concurrent specification: a valid request and the
\* rejected ones next to it.
CoreCreateBodies ==
    {CreateObject(JInt(1), JStr(<<" ", "w">>), a) : a \in {JInt(2), JInt(0)}}
    \cup {CreateObject(JInt(1), JStr(<<" ">>), JInt(2))}

CoreUpdateBodies ==
    {UpdateObject(JStr(<<"p", " ">>), JNull, a) : a \in {JInt(3), JInt(0)}}
    \cup {UpdateObject(JStr(<<" ">>), JNull, JInt(3)),
          UpdateObject(JNull, JStr(<<"x">>), JNull), EmptyObject}

\* <int:order_id> of the path.
PathIds == 1..MaxOrders

\* The path identifier 9223372036854775808 (2^63): the converter takes any
\* run of digits, and sqlite3 raises OverflowError when it is bound to a
\* statement.  In the model it is the identifier after the last one the
\* store can hand out.
BigId == MaxOrders + 1

\* The path identifiers of the sequential specification.
AllPathIds == PathIds \cup {BigId}

(***************************************************************************)
(* User service (src/user-service/app.py): table users, whose column email *)
(* is UNIQUE, and the handlers create_user, update_user and delete_user.   *)
(* The handlers that only read, get_user and list_users, are left out.     *)
(***************************************************************************)
\* Largest user identifier the store hands out (caps AUTOINCREMENT).
MaxUsers == 2

UserRow(id, name, email, created_at) ==
    [id |-> id, name |-> name, email |-> email, created_at |-> created_at]

\* fetchone() returning None.
NoUserRow == UserRow(0, <<>>, <<>>, 0)

\* SELECT ... FROM users WHERE id = ?  (fetchone)
SelectUserById(store, id) ==
    IF \E u \in store : u.id = id
    THEN CHOOSE u \in store : u.id = id
    ELSE NoUserRow

\* A table whose column email is not declared UNIQUE.
UniqueEmailFails_not_declared(store, id, email) == FALSE

\* email TEXT NOT NULL UNIQUE: writing this email to the row with this
\* identifier fails (sqlite3.IntegrityError) when another row has it.
UniqueEmailFails(store, id, email) ==
    \E u \in store : u.id # id /\ u.email = email

UserResponse(code, error, message) ==
    [code |-> code, error |-> error, message |-> message, user |-> NoUserRow]

NoUserResponse == UserResponse(0, "", "")

UserBadRequest(message) == UserResponse(400, "Bad Request", message)
UserNotFound == UserResponse(404, "Not Found", "User not found.")
UserConflict ==
    UserResponse(409, "Conflict", "User with this email already exists.")

\* handle_error of the user service for an exception that is no
\* HTTPException; the class name stands for str(err).
user_handle_error(err) == UserResponse(500, "Internal Server Error", err)

\* Request bodies of the user service; kinds as for the order service.
UserBody(kind, name, email) == [kind |-> kind, name |-> name, email |-> email]

EmptyUserObject == UserBody("object", JNull, JNull)
NoUserBody == UserBody("unparsable", JNull, JNull)
OtherUserBody == UserBody("other", JNull, JNull)

\* request.get_json(silent=True) or {}
UserJsonOrEmpty(raw) ==
    IF raw.kind \in {"unparsable", "falsy"} THEN EmptyUserObject ELSE raw

\* The fields of a user an update sets.
UserUpd(has_name, name, has_email, email) ==
    [has_name |-> has_name, name |-> name, has_email |-> has_email,
     email |-> email]

NoUserUpd == UserUpd(FALSE, <<>>, FALSE, <<>>)

UserEnded(resp) == [tag |-> "ended", resp |-> resp, upd |-> NoUserUpd]

\* create_user up to the insert: (x or "").strip() of both fields, then
\* the test that neither is empty.
create_user_validate(raw) ==
    LET body == UserJsonOrEmpty(raw)
    IN  IF body.kind # "object"
        THEN UserEnded(user_handle_error("AttributeError"))
        ELSE IF \/ Truthy(body.name) /\ body.name.k # "str"
                \/ Truthy(body.email) /\ body.email.k # "str"
        THEN UserEnded(user_handle_error("AttributeError"))
        ELSE LET name == IF Truthy(body.name) THEN PyStrip(body.name.s)
                         ELSE <<>>
                 email == IF Truthy(body.email) THEN PyStrip(body.email.s)
                          ELSE <<>>
             IN  IF name = <<>> \/ email = <<>>
                 THEN UserEnded(UserBadRequest(
                          "Fields 'name' and 'email' are required."))
                 ELSE [tag |-> "valid", resp |-> NoUserResponse,
                       upd |-> UserUpd(TRUE, name, TRUE, email)]

UpdateUserEmail(upd, email) ==
    IF email.k = "null"
    THEN IF ~upd.has_name
         THEN UserEnded(UserBadRequest("No updatable fields provided."))
         ELSE [tag |-> "valid", resp |-> NoUserResponse, upd |-> upd]
    ELSE IF PyStrip(PyStr(email)) = <<>>
    THEN UserEnded(UserBadRequest("Field 'email' cannot be empty."))
    ELSE [tag |-> "valid", resp |-> NoUserResponse,
          upd |-> [upd EXCEPT !.has_email = TRUE,
                              !.email = PyStrip(PyStr(email))]]

\* update_user after the existence check.
update_user_validate(body) ==
    IF body.name.k = "null" THEN UpdateUserEmail(NoUserUpd, body.email)
    ELSE IF PyStrip(PyStr(body.name)) = <<>>
    THEN UserEnded(UserBadRequest("Field 'name' cannot be empty."))
    ELSE UpdateUserEmail([NoUserUpd EXCEPT !.has_name = TRUE,
                                           !.name = PyStrip(PyStr(body.name))],
                         body.email)

\* UPDATE users SET <fields> WHERE id = ?
ApplyUserUpdate(store, id, upd) ==
    {IF u.id # id THEN u
     ELSE [u EXCEPT !.name = IF upd.has_name THEN upd.name ELSE @,
                    !.email = IF upd.has_email THEN upd.email ELSE @] :
     u \in store}

\* {"name": "a", "email": "x"} and its variations.
CreateUserObject(name, email) == UserBody("object", name, email)

CreateUserBodies ==
    {CreateUserObject(JStr(<<"a">>), e) :
        e \in {JStr(<<"x">>), JStr(<<" ", "x">>), JStr(<<"y">>),
               JStr(<<" ">>), JInt(5)}}
    \cup {CreateUserObject(JStr(<<" ">>), JStr(<<"x">>)),
          NoUserBody, OtherUserBody}

UpdateUserBodies ==
    {UserBody("object", JStr(<<"b">>), e) :
        e \in {JStr(<<"x">>), JStr(<<"y", " ">>), JNull}}
    \cup {UserBody("object", JNull, e) : e \in {JStr(<<"y">>), JStr(<<" ">>)}}
    \cup {UserBody("object", JStr(<<" ">>), JStr(<<"x">>)),
          EmptyUserObject, OtherUserBody}

\* <int:user_id> of the path.
UserPathIds == 1..MaxUsers

(***************************************************************************)
(* State.                                                                  *)
(*   orders  the rows of table orders                                      *)
(*   seq     the largest identifier AUTOINCREMENT has handed out           *)
(*   now     the last reading of the clock                                 *)
(*   req     per request in flight: the handler, its position, its input,  *)
(*           its local variables, the upstream responses it received,      *)
(*           whether it holds a connection (g.db), the effects it has had  *)
(*           so far (log) and its response                                 *)
(*   users   the rows of table users of the user service                   *)
(*   useq    the largest user identifier AUTOINCREMENT has handed out      *)
(*   unow    the last reading of the clock of the user service             *)
(*   ureq    per request in flight at the user service: the handler, its   *)
(*           position, its input, the fields it writes, the identifier it  *)
(*           was given and its response                                    *)
(***************************************************************************)
VARIABLES orders, seq, now, req, users, useq, unow, ureq

vars == <<orders, seq, now, req, users, useq, unow, ureq>>

\* The state of the order service, and that of the user service.
order_vars == <<orders, seq, now, req>>
user_vars == <<users, useq, unow, ureq>>

Idle ==
    [op |-> "idle", pc |-> "idle", path_id |-> 0, body |-> NoBody,
     user_id_int |-> PInt(0), item |-> <<>>, amount_int |-> PInt(0),
     upd |-> NoUpd, user_resp |-> NoOutcome, user |-> "",
     notify_resp |-> NoOutcome,
     order_id |-> 0, row |-> NoRow, db |-> FALSE, log |-> <<>>,
     resp |-> NoResponse]

UserIdle ==
    [op |-> "idle", pc |-> "idle", path_id |-> 0, body |-> NoUserBody,
     upd |-> NoUserUpd, user_id |-> 0, resp |-> NoUserResponse]

Init ==
    /\ orders = {}
    /\ seq = 0
    /\ now = 0
    /\ req = [r \in Req |-> Idle]
    /\ users = {}
    /\ useq = 0
    /\ unow = 0
    /\ ureq = [r \in Req |-> UserIdle]

\* The request ends with this response; teardown follows.
Finish(q, resp) == [q EXCEPT !.pc = "done", !.resp = resp]

Set(r, q) == req' = [req EXCEPT ![r] = q]

\* create_order sending the notification before it inserts.
CreatePcAfter_notify_first(pc) ==
    CASE pc = "begin" -> "fetch_user"
      [] pc = "fetch_user" -> "send_notification"
      [] pc = "send_notification" -> "insert"
      [] pc = "insert" -> "select"
      [] OTHER -> "done"

\* create_order, in the order of its statements, while nothing ends it.
CreatePcAfter(pc) ==
    CASE pc = "begin" -> "fetch_user"
      [] pc = "fetch_user" -> "insert"
      [] pc = "insert" -> "select"
      [] pc = "select" -> "send_notification"
      [] OTHER -> "done"

\* Creates that have not yet inserted: each will take an identifier.
PendingCreates ==
    Cardinality({r \in Req : req[r].op = "create"
                             /\ req[r].pc \in {"fetch_user", "insert"}})

(***************************************************************************)
(* POST /orders                                                            *)
(***************************************************************************)
create_order_begin(r, raw) ==
    /\ req[r].op = "idle"
    /\ seq + PendingCreates < MaxOrders
    /\ LET v == create_validate(raw)
           q == [Idle EXCEPT !.op = "create", !.body = raw]
       IN  Set(r, IF v.tag = "ended" THEN Finish(q, v.resp)
                  ELSE [q EXCEPT !.pc = CreatePcAfter("begin"),
                                 !.user_id_int = v.user_id_int,
                                 !.item = v.item,
                                 !.amount_int = v.amount_int])
    /\ UNCHANGED <<orders, seq, now>>

create_order_fetch_user(r, o) ==
    /\ req[r].op = "create" /\ req[r].pc = "fetch_user"
    /\ LET user == fetch_user(o)
           q == [req[r] EXCEPT !.user_resp = o,
                               !.user = user.tag,
                               !.log = Append(@, "fetch_user")]
       IN  Set(r, IF user.tag = "raise" THEN Finish(q, handle_error(user.err))
                  ELSE IF user.tag = "None"
                  THEN Finish(q, BadRequest("User does not exist."))
                  ELSE [q EXCEPT !.pc = CreatePcAfter("fetch_user")])
    /\ UNCHANGED <<orders, seq, now>>

\* The insert on a table without AUTOINCREMENT: the new identifier is one
\* more than the largest stored one.
create_order_insert_max_rowid(r, t) ==
    /\ req[r].op = "create" /\ req[r].pc = "insert"
    /\ LET q == [req[r] EXCEPT !.db = TRUE]
           top == IF orders = {} THEN 0
                  ELSE CHOOSE n \in {o.id : o \in orders} :
                         \A o \in orders : o.id <= n
       IN  /\ orders' = orders \cup
                  {Row(top + 1, q.user_id_int.n, q.item, q.amount_int.n,
                       StatusCreated, t)}
           /\ seq' = IF top + 1 > seq THEN top + 1 ELSE seq
           /\ now' = t
           /\ Set(r, [q EXCEPT !.pc = CreatePcAfter("insert"),
                               !.order_id = top + 1,
                               !.log = Append(@, "insert")])

\* get_db, INSERT, commit, lastrowid.  A value outside 64 bits cannot be
\* bound to the statement: sqlite3 raises OverflowError before it runs.
create_order_insert(r, t) ==
    /\ req[r].op = "create" /\ req[r].pc = "insert"
    /\ LET q == [req[r] EXCEPT !.db = TRUE]
       IN  IF q.user_id_int.big \/ q.amount_int.big
           THEN /\ Set(r, Finish(q, handle_error("OverflowError")))
                /\ UNCHANGED <<orders, seq, now>>
           ELSE /\ orders' = orders \cup
                       {Row(seq + 1, q.user_id_int.n, q.item, q.amount_int.n,
                            StatusCreated, t)}
                /\ seq' = seq + 1
                /\ now' = t
                /\ Set(r, [q EXCEPT !.pc = CreatePcAfter("insert"),
                                    !.order_id = seq + 1,
                                    !.log = Append(@, "insert")])

\* SELECT of the new row; dict(row) raises TypeError when there is none.
create_order_select(r) ==
    /\ req[r].op = "create" /\ req[r].pc = "select"
    /\ LET row == SelectById(orders, req[r].order_id)
       IN  Set(r, IF row = NoRow
                  THEN Finish(req[r], handle_error("TypeError"))
                  ELSE [req[r] EXCEPT !.pc = CreatePcAfter("select"),
                                      !.row = row])
    /\ UNCHANGED <<orders, seq, now>>

\* create_order taking its row back when the notification fails.
create_order_send_notification_rollback(r, o) ==
    /\ req[r].op = "create" /\ req[r].pc = "send_notification"
    /\ LET sent == send_notification(o)
           q == [req[r] EXCEPT !.notify_resp = o,
                               !.log = Append(@, "send_notification")]
           resp == [Response(201, "", "") EXCEPT
                      !.order = q.row,
                      !.notification_sent = IF sent.ok THEN "true" ELSE "false",
                      !.notification_error =
                          IF ErrTruthy(sent.err) THEN sent.err ELSE NoErr]
       IN  /\ Set(r, [q EXCEPT !.pc = CreatePcAfter("send_notification"),
                               !.resp = resp])
           /\ orders' = IF sent.ok THEN orders
                        ELSE {x \in orders : x.id # q.order_id}
    /\ UNCHANGED <<seq, now>>

create_order_send_notification(r, o) ==
    /\ req[r].op = "create" /\ req[r].pc = "send_notification"
    /\ LET sent == send_notification(o)
           q == [req[r] EXCEPT !.notify_resp = o,
                               !.log = Append(@, "send_notification")]
           resp == [Response(201, "", "") EXCEPT
                      !.order = q.row,
                      !.notification_sent = IF sent.ok THEN "true" ELSE "false",
                      !.notification_error =
                          IF ErrTruthy(sent.err) THEN sent.err ELSE NoErr]
       IN  Set(r, [q EXCEPT !.pc = CreatePcAfter("send_notification"),
                            !.resp = resp])
    /\ UNCHANGED <<orders, seq, now>>

(***************************************************************************)
(* GET /orders, GET /orders/<id>                                           *)
(***************************************************************************)
list_orders(r) ==
    /\ req[r].op = "idle"
    /\ Set(r, Finish([Idle EXCEPT !.op = "list", !.db = TRUE],
                     [Response(200, "", "") EXCEPT
                        !.list = OrderByIdDesc(orders)]))
    /\ UNCHANGED <<orders, seq, now>>

get_order(r, id) ==
    /\ req[r].op = "idle"
    /\ LET row == SelectById(orders, id)
           q == [Idle EXCEPT !.op = "get", !.path_id = id, !.db = TRUE]
       IN  Set(r, IF id = BigId THEN Finish(q, handle_error("OverflowError"))
                  ELSE IF row = NoRow
                  THEN Finish(q, NotFound("Order not found."))
                  ELSE Finish(q, [Response(200, "", "") EXCEPT !.order = row]))
    /\ UNCHANGED <<orders, seq, now>>

(***************************************************************************)
(* PUT /orders/<id>                                                        *)
(***************************************************************************)
update_order_begin(r, id, raw) ==
    /\ req[r].op = "idle"
    /\ LET body == JsonOrEmpty(raw)
           q == [Idle EXCEPT !.op = "update", !.path_id = id, !.body = raw]
           c == [q EXCEPT !.db = TRUE]
           v == update_validate(body)
       IN  Set(r, IF body.kind # "object"
                  THEN Finish(q, handle_error("AttributeError"))
                  ELSE IF id = BigId
                  THEN Finish(c, handle_error("OverflowError"))
                  ELSE IF SelectById(orders, id) = NoRow
                  THEN Finish(c, NotFound("Order not found."))
                  ELSE IF v.tag = "ended" THEN Finish(c, v.resp)
                  ELSE [c EXCEPT !.pc = "update", !.upd = v.upd])
    /\ UNCHANGED <<orders, seq, now>>

\* UPDATE, commit.  As for the insert, a value outside 64 bits raises.
update_order_write(r) ==
    /\ req[r].op = "update" /\ req[r].pc = "update"
    /\ IF req[r].upd.has_amount /\ req[r].upd.amount.big
       THEN /\ Set(r, Finish(req[r], handle_error("OverflowError")))
            /\ UNCHANGED orders
       ELSE /\ orders' = ApplyUpdate(orders, req[r].path_id, req[r].upd)
            /\ Set(r, [req[r] EXCEPT !.pc = "select",
                                     !.log = Append(@, "update")])
    /\ UNCHANGED <<seq, now>>

update_order_select(r) ==
    /\ req[r].op = "update" /\ req[r].pc = "select"
    /\ LET row == SelectById(orders, req[r].path_id)
       IN  Set(r, IF row = NoRow
                  THEN Finish(req[r], handle_error("TypeError"))
                  ELSE Finish([req[r] EXCEPT !.row = row],
                              [Response(200, "", "") EXCEPT !.order = row]))
    /\ UNCHANGED <<orders, seq, now>>

(***************************************************************************)
(* DELETE /orders/<id>                                                     *)
(***************************************************************************)
delete_order(r, id) ==
    /\ req[r].op = "idle"
    /\ orders' = {o \in orders : o.id # id}
    /\ LET q == [Idle EXCEPT !.op = "delete", !.path_id = id, !.db = TRUE]
       IN  Set(r, IF id = BigId THEN Finish(q, handle_error("OverflowError"))
                  ELSE IF orders' = orders
                  THEN Finish(q, NotFound("Order not found."))
                  ELSE Finish([q EXCEPT !.log = <<"delete">>],
                              Response(204, "", "")))
    /\ UNCHANGED <<seq, now>>

\* A teardown that closes the connection only after a response below 400.
close_db_on_success(r) ==
    /\ req[r].pc = "done"
    /\ Set(r, [Idle EXCEPT !.db = req[r].db /\ req[r].resp.code >= 400])
    /\ UNCHANGED <<orders, seq, now>>

\* teardown_appcontext: close_db; the request is over.
close_db(r) ==
    /\ req[r].pc = "done"
    /\ Set(r, Idle)
    /\ UNCHANGED <<orders, seq, now>>

\* One step of request r, its inputs drawn from the given sets.
Requests(r, creates, checks, notifies, updates, ids) ==
    \/ \E raw \in creates : create_order_begin(r, raw)
    \/ \E o \in checks : create_order_fetch_user(r, o)
    \/ \E t \in now..MaxTime : create_order_insert(r, t)
    \/ create_order_select(r)
    \/ \E o \in notifies : create_order_send_notification(r, o)
    \/ list_orders(r)
    \/ \E id \in ids : get_order(r, id)
    \/ \E id \in ids, raw \in updates : update_order_begin(r, id, raw)
    \/ update_order_write(r)
    \/ update_order_select(r)
    \/ \E id \in ids : delete_order(r, id)
    \/ close_db(r)

(***************************************************************************)
(* Spec: requests run concurrently and interleave at every step.           *)
(***************************************************************************)
Next ==
    /\ \E r \in Req :
         Requests(r, CoreCreateBodies, UserOutcomes, NotifyOutcomes,
                  CoreUpdateBodies, PathIds)
    /\ UNCHANGED user_vars

Spec == Init /\ [][Next]_vars

(***************************************************************************)
(* SpecSeq: one request at a time, over the wider sets of inputs.          *)
(***************************************************************************)
Alone(r) == \A s \in Req \ {r} : req[s].op = "idle"

NextSeq ==
    /\ \E r \in Req :
         /\ Alone(r)
         /\ Requests(r, CreateBodies, UserOutcomes, NotifyOutcomes,
                     UpdateBodies, AllPathIds)
    /\ UNCHANGED user_vars

SpecSeq == Init /\ [][NextSeq]_vars

(***************************************************************************)
(* The user service.  As in the order service every request has its own    *)
(* connection, and a handler is a sequence of steps, one per statement on  *)
(* the store (with its commit).                                            *)
(***************************************************************************)
UserFinish(q, resp) == [q EXCEPT !.pc = "done", !.resp = resp]

UserSet(r, q) == ureq' = [ureq EXCEPT ![r] = q]

\* Creates that have not yet inserted: each may take an identifier.
PendingUserCreates ==
    Cardinality({r \in Req : ureq[r].op = "create_user"
                             /\ ureq[r].pc = "insert"})

\* POST /users, up to the insert.
create_user_begin(r, raw) ==
    /\ ureq[r].op = "idle"
    /\ useq + PendingUserCreates < MaxUsers
    /\ LET v == create_user_validate(raw)
           q == [UserIdle EXCEPT !.op = "create_user", !.body = raw]
       IN  UserSet(r, IF v.tag = "ended" THEN UserFinish(q, v.resp)
                      ELSE [q EXCEPT !.pc = "insert", !.upd = v.upd])
    /\ UNCHANGED <<users, useq, unow>>

\* INSERT, commit, lastrowid; IntegrityError answers 409.
create_user_insert(r, t) ==
    /\ ureq[r].op = "create_user" /\ ureq[r].pc = "insert"
    /\ IF UniqueEmailFails(users, useq + 1, ureq[r].upd.email)
       THEN /\ UserSet(r, UserFinish(ureq[r], UserConflict))
            /\ UNCHANGED <<users, useq, unow>>
       ELSE /\ users' = users \cup
                   {UserRow(useq + 1, ureq[r].upd.name, ureq[r].upd.email, t)}
            /\ useq' = useq + 1
            /\ unow' = t
            /\ UserSet(r, [ureq[r] EXCEPT !.pc = "select",
                                          !.user_id = useq + 1])

\* SELECT of the new row; dict(row) raises TypeError when there is none.
create_user_select(r) ==
    /\ ureq[r].op = "create_user" /\ ureq[r].pc = "select"
    /\ LET row == SelectUserById(users, ureq[r].user_id)
       IN  UserSet(r, IF row = NoUserRow
                      THEN UserFinish(ureq[r], user_handle_error("TypeError"))
                      ELSE UserFinish(ureq[r],
                                      [UserResponse(201, "", "") EXCEPT
                                         !.user = row]))
    /\ UNCHANGED <<users, useq, unow>>

\* PUT /users/<id>, up to the UPDATE.
update_user_begin(r, id, raw) ==
    /\ ureq[r].op = "idle"
    /\ LET body == UserJsonOrEmpty(raw)
           q == [UserIdle EXCEPT !.op = "update_user", !.path_id = id,
                                 !.body = raw]
           v == update_user_validate(body)
       IN  UserSet(r, IF body.kind # "object"
                      THEN UserFinish(q, user_handle_error("AttributeError"))
                      ELSE IF SelectUserById(users, id) = NoUserRow
                      THEN UserFinish(q, UserNotFound)
                      ELSE IF v.tag = "ended" THEN UserFinish(q, v.resp)
                      ELSE [q EXCEPT !.pc = "update", !.upd = v.upd])
    /\ UNCHANGED <<users, useq, unow>>

\* UPDATE, commit; IntegrityError answers 409 and the statement changes
\* nothing.  An UPDATE that matches no row cannot fail.
update_user_write(r) ==
    /\ ureq[r].op = "update_user" /\ ureq[r].pc = "update"
    /\ IF /\ ureq[r].upd.has_email
          /\ SelectUserById(users, ureq[r].path_id) # NoUserRow
          /\ UniqueEmailFails(users, ureq[r].path_id, ureq[r].upd.email)
       THEN /\ UserSet(r, UserFinish(ureq[r], UserConflict))
            /\ UNCHANGED users
       ELSE /\ users' = ApplyUserUpdate(users, ureq[r].path_id, ureq[r].upd)
            /\ UserSet(r, [ureq[r] EXCEPT !.pc = "select"])
    /\ UNCHANGED <<useq, unow>>

update_user_select(r) ==
    /\ ureq[r].op = "update_user" /\ ureq[r].pc = "select"
    /\ LET row == SelectUserById(users, ureq[r].path_id)
       IN  UserSet(r, IF row = NoUserRow
                      THEN UserFinish(ureq[r], user_handle_error("TypeError"))
                      ELSE UserFinish(ureq[r],
                                      [UserResponse(200, "", "") EXCEPT
                                         !.user = row]))
    /\ UNCHANGED <<users, useq, unow>>

\* DELETE /users/<id>
delete_user(r, id) ==
    /\ ureq[r].op = "idle"
    /\ users' = {u \in users : u.id # id}
    /\ LET q == [UserIdle EXCEPT !.op = "delete_user", !.path_id = id]
       IN  UserSet(r, IF users' = users THEN UserFinish(q, UserNotFound)
                      ELSE UserFinish(q, UserResponse(204, "", "")))
    /\ UNCHANGED <<useq, unow>>

\* teardown_appcontext of the user service: the request is over.
user_close_db(r) ==
    /\ ureq[r].pc = "done"
    /\ UserSet(r, UserIdle)
    /\ UNCHANGED <<users, useq, unow>>

\* One step of request r at the user service.
UserRequests(r) ==
    \/ \E raw \in CreateUserBodies : create_user_begin(r, raw)
    \/ \E t \in unow..MaxTime : create_user_insert(r, t)
    \/ create_user_select(r)
    \/ \E id \in UserPathIds, raw \in UpdateUserBodies :
          update_user_begin(r, id, raw)
    \/ update_user_write(r)
    \/ update_user_select(r)
    \/ \E id \in UserPathIds : delete_user(r, id)
    \/ user_close_db(r)

(***************************************************************************)
(* SpecUsers: the requests of the user service, running concurrently.      *)
(***************************************************************************)
NextUsers ==
    /\ \E r \in Req : UserRequests(r)
    /\ UNCHANGED order_vars

SpecUsers == Init /\ [][NextUsers]_vars

(***************************************************************************)
(* Vocabulary of the properties.                                           *)
(***************************************************************************)
\* A JSON integer.
IsInteger(v) == v.k \in {"int", "big"}

\* A value that is no integer: a number with a fraction, infinity, a list,
\* or text that does not read as one.
NotInteger(v) ==
    \/ v.k \in {"float", "inf", "array"}
    \/ v.k = "str" /\ ParseInt(v.s).tag # "ok"

\* Text that is empty once trimmed, or no value at all.
EmptyText(v) == v.k = "null" \/ (v.k = "str" /\ PyStrip(v.s) = <<>>)

NonPositive(v) == v.k = "int" /\ v.n <= 0

\* The user check found the user: 200 with a user record.
FoundUser(o) == o.t = "http" /\ o.code = 200 /\ o.body = "object"
AbsentUser(o) == o.t = "http" /\ o.code = 404
TransportFailure(o) == o.t = "transport"
\* The call completed, with neither a user record nor a 404.
UnexpectedResponse(o) == o.t = "http" /\ ~FoundUser(o) /\ ~AbsentUser(o)

\* The notification call failed: in transport, or with a status that is
\* neither 200 nor 201.
NotifyFailed(o) ==
    o.t = "transport" \/ (o.t = "http" /\ o.code # 200 /\ o.code # 201)

Creates == {r \in Req : req[r].op = "create"}
Updates == {r \in Req : req[r].op = "update"}

Count(log, e) == Cardinality({i \in 1..Len(log) : log[i] = e})

IsPrefix(s, t) == Len(s) <= Len(t) /\ s = SubSeq(t, 1, Len(s))

(***************************************************************************)
(* C1.  A create request with an integer user_id, an item that is not      *)
(* empty once trimmed and an integer amount > 0, whose user check found    *)
(* the user, ends with 201: it inserted exactly one row, with status       *)
(* "created", and GET on the returned identifier answers 200 with the same *)
(* identifier, item and amount.                                            *)
(***************************************************************************)
ValidCreate(raw) ==
    /\ raw.kind = "object"
    /\ IsInteger(raw.user_id)
    /\ raw.item.k = "str" /\ PyStrip(raw.item.s) # <<>>
    /\ IsInteger(raw.amount) /\ ~NonPositive(raw.amount)

C1_ValidCreatePersists ==
    \A r \in Creates :
        (/\ req[r].pc = "done"
         /\ ValidCreate(req[r].body)
         /\ FoundUser(req[r].user_resp))
        => /\ req[r].resp.code = 201
           /\ Count(req[r].log, "insert") = 1
           /\ req[r].resp.order.status = StatusCreated
           /\ req[r].resp.order.item = PyStrip(req[r].body.item.s)
           /\ req[r].resp.order.amount = req[r].body.amount.n
           /\ LET got == SelectById(orders, req[r].resp.order.id)
              IN  /\ got # NoRow
                  /\ got.id = req[r].resp.order.id
                  /\ got.item = req[r].resp.order.item
                  /\ got.amount = req[r].resp.order.amount

(***************************************************************************)
(* C2.  A create request whose amount is <= 0, whose item is empty once    *)
(* trimmed, or whose user_id or amount is no integer is rejected with 400  *)
(* at once: no upstream call, no connection to the store, no row.          *)
(***************************************************************************)
InvalidCreate(raw) ==
    /\ raw.kind = "object"
    /\ \/ NonPositive(raw.amount)
       \/ EmptyText(raw.item)
       \/ NotInteger(raw.user_id)
       \/ NotInteger(raw.amount)

C2_InvalidCreateRejected ==
    \A r \in Creates :
        InvalidCreate(req[r].body)
        => /\ req[r].pc = "done"
           /\ req[r].resp.code = 400
           /\ req[r].log = <<>>
           /\ ~req[r].db

(***************************************************************************)
(* C3.  When the user check of a create request fails in transport the     *)
(* request ends with 503, and when it completes with an unexpected         *)
(* response the request ends with 502; either way nothing was inserted and *)
(* no notification was sent.                                               *)
(***************************************************************************)
C3_UpstreamFailureAborts ==
    \A r \in Creates :
        /\ TransportFailure(req[r].user_resp)
           => /\ req[r].pc = "done" /\ req[r].resp.code = 503
              /\ req[r].log = <<"fetch_user">> /\ ~req[r].db
        /\ UnexpectedResponse(req[r].user_resp)
           => /\ req[r].pc = "done" /\ req[r].resp.code = 502
              /\ req[r].log = <<"fetch_user">> /\ ~req[r].db

(***************************************************************************)
(* C4.  When the user check of a create request answers 404, the request   *)
(* ends with 400 "User does not exist."; it never opened a connection to   *)
(* the store, inserted nothing and sent no notification.                   *)
(***************************************************************************)
C4_AbsentUserRejected ==
    \A r \in Creates :
        AbsentUser(req[r].user_resp)
        => /\ req[r].pc = "done"
           /\ req[r].resp = BadRequest("User does not exist.")
           /\ req[r].log = <<"fetch_user">>
           /\ ~req[r].db

C4_Witness ==
    \E r \in Creates : AbsentUser(req[r].user_resp) /\ req[r].pc = "done"

(***************************************************************************)
(* C5.  The step in which the notification call of a create request fails  *)
(* (transport error, or a status other than 200 and 201) ends the request  *)
(* with 201: the body is the row the request inserted and read back, with  *)
(* notification_sent false and a notification_error that is not empty, and *)
(* the step leaves the store as it is.                                     *)
(***************************************************************************)
C5_NotifyFailureIsSoft ==
    [][\A r \in Req :
         (/\ req[r].pc = "send_notification"
          /\ req'[r].pc # "send_notification"
          /\ NotifyFailed(req'[r].notify_resp))
         => /\ req'[r].pc = "done"
            /\ req'[r].resp.code = 201
            /\ req'[r].resp.notification_sent = "false"
            /\ ErrTruthy(req'[r].resp.notification_error)
            /\ Count(req[r].log, "insert") = 1
            /\ req'[r].resp.order = req[r].row
            /\ req[r].row.id = req[r].order_id
            /\ orders' = orders /\ seq' = seq]_vars

C5_Witness ==
    \E r \in Creates :
        /\ req[r].pc = "done"
        /\ NotifyFailed(req[r].notify_resp)
        /\ req[r].resp.notification_sent = "false"

(***************************************************************************)
(* C6.  Within a create request the effects come in one order: the user    *)
(* check, the insert, the notification.  A request that has inserted had   *)
(* its check answered with a user; a request that has sent the             *)
(* notification had committed its row, and sent it for that row.           *)
(***************************************************************************)
C6_CheckInsertNotifyOrder ==
    \A r \in Creates :
        /\ IsPrefix(req[r].log, <<"fetch_user", "insert", "send_notification">>)
        /\ Count(req[r].log, "insert") = 1
           => /\ req[r].user = "user"
              /\ req[r].order_id \in 1..seq
        /\ Count(req[r].log, "send_notification") = 1
           => /\ req[r].order_id \in 1..seq
              /\ req[r].row.id = req[r].order_id

C6_Witness ==
    \E r \in Creates :
        req[r].log = <<"fetch_user", "insert", "send_notification">>

(***************************************************************************)
(* C7.  Every stored order has amount > 0 and a status that is not empty.  *)
(***************************************************************************)
C7_AmountPositiveStatusNonEmpty ==
    \A o \in orders : o.amount > 0 /\ o.status # <<>>

\* An order that an update has written to.
C7_Witness ==
    \E o \in orders : o.status # StatusCreated /\ o.amount = 3

(***************************************************************************)
(* C8.  The user check has three results: a user only for 200 with a user  *)
(* record, absent only for 404, and otherwise a failure, 503 when the call *)
(* did not complete and 502 when it completed with anything else.          *)
(***************************************************************************)
C8_UserCheckClassification ==
    \A r \in Creates :
        /\ req[r].user = "user" => FoundUser(req[r].user_resp)
        /\ req[r].user = "None" => AbsentUser(req[r].user_resp)
        /\ req[r].user = "raise"
           => req[r].resp.code =
                 IF TransportFailure(req[r].user_resp) THEN 503 ELSE 502

(***************************************************************************)
(* C9.  An update of an existing order in which a supplied field fails its *)
(* rule (text empty once trimmed, an amount that is no integer or is <= 0) *)
(* ends with 400 without writing, also when an earlier field was valid.    *)
(***************************************************************************)
FailsRule(raw) ==
    /\ raw.kind = "object"
    /\ \/ raw.status.k = "str" /\ PyStrip(raw.status.s) = <<>>
       \/ raw.item.k = "str" /\ PyStrip(raw.item.s) = <<>>
       \/ NonPositive(raw.amount)
       \/ NotInteger(raw.amount)

C9_UpdateAllOrNothing ==
    \A r \in Updates :
        (FailsRule(req[r].body) /\ req[r].resp.code # 404)
        => /\ req[r].pc = "done"
           /\ req[r].resp.code = 400
           /\ req[r].log = <<>>

(***************************************************************************)
(* C10.  An update of an identifier that has no row ends with 404 whatever *)
(* the body is, and leaves the store as it is.                             *)
(***************************************************************************)
C10_UpdateMissingNotFound ==
    [][\A r \in Req :
         (/\ req[r].op = "idle"
          /\ req'[r].op = "update"
          /\ SelectById(orders, req'[r].path_id) = NoRow)
         => /\ req'[r].pc = "done"
            /\ req'[r].resp.code = 404
            /\ orders' = orders]_vars

(***************************************************************************)
(* C11.  An update of an existing order whose body names none of status,   *)
(* item and amount (an empty JSON object, or no JSON at all) ends with 400 *)
(* "No updatable fields provided." in the step that takes it, and that     *)
(* step leaves the store as it is.                                         *)
(***************************************************************************)
NoFields(raw) ==
    /\ raw.kind \in {"object", "unparsable", "falsy"}
    /\ JsonOrEmpty(raw) = EmptyObject

C12_ListDescending ==
    [][\A r \in Req :
         (req[r].op = "idle" /\ req'[r].op = "list")
         => LET l == req'[r].resp.list
            IN  /\ req'[r].resp.code = 200
                /\ {l[i] : i \in 1..Len(l)} = orders
                /\ Len(l) = Cardinality(orders)
                /\ \A i \in 1..Len(l) :
                      \A j \in (i + 1)..Len(l) : l[i].id > l[j].id
                /\ orders' = orders]_vars

\* A list of two orders, the newer one first.
C12_Witness ==
    \E r \in Req :
        /\ req[r].op = "list"
        /\ Len(req[r].resp.list) = 2
        /\ req[r].resp.list[1].id = 2

(***************************************************************************)
(* C13.  What a create request stores does not depend on the notification: *)
(* the row it inserts is made of the request's own user_id, item and       *)
(* amount with status "created", before any notification outcome exists;   *)
(* the notification step, whatever its outcome, answers 201 with the row   *)
(* read before it and leaves the store as it is; and no later step of the  *)
(* request touches the store.                                              *)
(***************************************************************************)
C13_NotificationLeavesStore ==
    [][\A r \in Req :
         /\ (req[r].pc = "insert" /\ req'[r].pc = "select")
            => /\ req[r].notify_resp = NoOutcome
               /\ orders' = orders \cup
                     {Row(seq + 1, PyInt(req[r].body.user_id).val.n,
                          PyStrip(req[r].body.item.s),
                          PyInt(req[r].body.amount).val.n, StatusCreated,
                          now')}
         /\ (req[r].pc = "send_notification" /\ req'[r] # req[r])
            => /\ req'[r].resp.code = 201
               /\ req'[r].resp.order = req[r].row
               /\ orders' = orders /\ seq' = seq
         /\ (Count(req[r].log, "send_notification") = 1 /\ req'[r] # req[r])
            => orders' = orders /\ seq' = seq]_vars

\* The notification failed and the row is stored as it was read.
C13_Witness ==
    \E r \in Creates :
        /\ req[r].pc = "done"
        /\ NotifyFailed(req[r].notify_resp)
        /\ req[r].row # NoRow
        /\ SelectById(orders, req[r].order_id) = req[r].row

(***************************************************************************)
(* C14.  A create request that violates a validation rule ends with 400    *)
(* and the message of the first rule it violates, in the order: a required *)
(* field is missing, user_id is no integer, amount is no integer, amount   *)
(* is <= 0.                                                                *)
(***************************************************************************)
FirstViolated(raw) ==
    IF raw.user_id.k = "null" \/ EmptyText(raw.item) \/ raw.amount.k = "null"
    THEN "Fields 'user_id', 'item', and 'amount' are required."
    ELSE IF NotInteger(raw.user_id) THEN "Field 'user_id' must be an integer."
    ELSE IF NotInteger(raw.amount) THEN "Field 'amount' must be an integer."
    ELSE IF NonPositive(raw.amount) THEN "Field 'amount' must be > 0."
    ELSE ""

C14_FirstViolatedRule ==
    \A r \in Creates :
        (/\ req[r].body.kind = "object"
         /\ req[r].body.item.k \in {"null", "str"}
         /\ FirstViolated(req[r].body) # "")
        => /\ req[r].pc = "done"
           /\ req[r].resp = BadRequest(FirstViolated(req[r].body))

(***************************************************************************)
(* C15.  A request holds a connection only from its first statement on the *)
(* store until it completes.  The step that completes a request releases   *)
(* its connection whatever the response is; between requests no connection *)
(* is open; a create request that ended in validation or in the user       *)
(* check, and an update that failed reading its body, never acquired one;  *)
(* and a step of one request leaves the connections of the others alone.   *)
(***************************************************************************)
C15_ConnectionScopedToRequest ==
    [][\A r \in Req :
         /\ req[r].op = "idle" => ~req[r].db
         /\ (req[r].pc = "done" /\ req'[r] # req[r])
            => req'[r].op = "idle" /\ ~req'[r].db
         /\ (req[r].op = "create" /\ req[r].user # "user") => ~req[r].db
         /\ (req[r].op = "update" /\ req[r].body.kind = "other")
            => ~req[r].db
         /\ req'[r] # req[r]
            => \A s \in Req \ {r} : req'[s].db = req[s].db]_vars

\* A request that failed with an internal error while holding a connection.
C15_Witness ==
    \E r \in Req :
        req[r].pc = "done" /\ req[r].db /\ req[r].resp.code = 500

(***************************************************************************)
(* C16.  The step that takes a get or a delete request ends it with 404    *)
(* exactly when no row has the identifier.  Otherwise a get answers 200    *)
(* with the row, and a delete answers 204 and removes that row and no      *)
(* other.  An identifier that was handed out and has no row never has one  *)
(* again, so a later get or delete of it ends with 404 as well.            *)
(***************************************************************************)
C16_GetDeleteNotFound ==
    [][/\ \A r \in Req :
            (req[r].op = "idle" /\ req'[r].op \in {"get", "delete"})
            => LET id == req'[r].path_id
                   row == SelectById(orders, id)
               IN  /\ req'[r].pc = "done"
                   /\ req'[r].resp.code = 404 <=> row = NoRow
                   /\ (row # NoRow /\ req'[r].op = "get")
                      => /\ req'[r].resp.code = 200
                         /\ req'[r].resp.order = row
                         /\ orders' = orders
                   /\ (row # NoRow /\ req'[r].op = "delete")
                      => /\ req'[r].resp.code = 204
                         /\ orders' = orders \ {row}
                   /\ row = NoRow => orders' = orders
       /\ \A id \in 1..seq :
            SelectById(orders, id) = NoRow => SelectById(orders', id) = NoRow
      ]_vars

(***************************************************************************)
(* C17.  No step changes the identifier, user_id or created_at of a stored *)
(* order.  The step in which an update request writes keeps the number of  *)
(* rows, leaves every row with another identifier as it is, and in its own *)
(* row changes at most the fields among status, item and amount that the   *)
(* request supplied.                                                       *)
(***************************************************************************)
Supplied(v) == v.k # "null"

C17_UpdateFrame ==
    [][/\ \A o \in orders : \A n \in orders' :
            n.id = o.id
            => n.user_id = o.user_id /\ n.created_at = o.created_at
       /\ \A r \in Req :
            (/\ req[r].op = "update"
             /\ req[r].pc = "update" /\ req'[r].pc = "select")
            => /\ Cardinality(orders') = Cardinality(orders)
               /\ \A o \in orders :
                     LET n == SelectById(orders', o.id)
                     IN  /\ n # NoRow
                         /\ o.id # req[r].path_id => n = o
                         /\ ~Supplied(req[r].body.status)
                            => n.status = o.status
                         /\ ~Supplied(req[r].body.item) => n.item = o.item
                         /\ ~Supplied(req[r].body.amount)
                            => n.amount = o.amount
      ]_vars

\* An update that supplied the item only has written and read its row back.
C17_Witness ==
    \E r \in Updates :
        /\ req[r].log = <<"update">>
        /\ ~Supplied(req[r].body.status) /\ Supplied(req[r].body.item)
        /\ req[r].row.item = <<"x">>
        /\ req[r].row.status = StatusCreated
        /\ req[r].row.amount = 2

(***************************************************************************)
(* C18.  A create request calls the user service at most once and the      *)
(* notification service at most once; a failed user check ends the         *)
(* request; no notification is sent before the request has committed a     *)
(* row; and a request that is over has sent its notification exactly when  *)
(* it committed a row.                                                     *)
(***************************************************************************)
C18_NoRetries ==
    \A r \in Creates :
        /\ Count(req[r].log, "fetch_user") <= 1
        /\ Count(req[r].log, "send_notification") <= 1
        /\ req[r].user = "raise" => req[r].pc = "done"
        /\ Count(req[r].log, "send_notification")
              <= Count(req[r].log, "insert")
        /\ req[r].pc = "done"
           => Count(req[r].log, "send_notification")
                = Count(req[r].log, "insert")

(***************************************************************************)
(* C19.  Whatever other requests do in between, the step that ends an      *)
(* update request ends it with 200, 400 or 404, and a 200 carries a row    *)
(* that is stored at that moment.                                          *)
(***************************************************************************)
C19_UpdateDeleteRace ==
    [][\A r \in Req :
         (/\ req'[r].op = "update"
          /\ req[r].pc # "done" /\ req'[r].pc = "done")
         => /\ req'[r].resp.code \in {200, 400, 404}
            /\ req'[r].resp.code = 200 => req'[r].resp.order \in orders']_vars

(***************************************************************************)
(* C20.  Identifiers are positive, unique among the stored orders and      *)
(* never handed out twice: the counter of identifiers never goes back,     *)
(* also when the order with the highest identifier is deleted, and the     *)
(* step in which a create request inserts adds exactly one row, keeps      *)
(* every other row, and gives the new row an identifier greater than the   *)
(* counter, than every stored identifier and than the identifier of every  *)
(* request in flight.  Two create requests in flight that have inserted    *)
(* hold different identifiers.                                             *)
(***************************************************************************)
C20_IdentifiersNeverReused ==
    [][/\ seq' >= seq
       /\ \A o \in orders : o.id \in 1..seq
       /\ \A o \in orders : \A p \in orders : o.id = p.id => o = p
       /\ \A r \in Creates : \A s \in Creates \ {r} :
            req[r].order_id # 0 => req[r].order_id # req[s].order_id
       /\ \A r \in Req :
            (req[r].pc = "insert" /\ req'[r].pc = "select")
            => LET id == req'[r].order_id
               IN  /\ id > 0 /\ id > seq /\ seq' = id
                   /\ \A o \in orders : o.id < id /\ o \in orders'
                   /\ \A s \in Req : req[s].order_id < id
                   /\ Cardinality(orders') = Cardinality(orders) + 1
                   /\ SelectById(orders', id) # NoRow
      ]_vars

\* Two create requests in flight at the same time have both ended with 201,
\* and both rows are stored.
C20_Witness ==
    \E r \in Creates : \E s \in Creates \ {r} :
        /\ req[r].resp.code = 201 /\ req[s].resp.code = 201
        /\ req[r].resp.order.id = 1 /\ req[s].resp.order.id = 2
        /\ req[r].resp.order \in orders /\ req[s].resp.order \in orders

(***************************************************************************)
(* C21.  No two stored users share an email.  The step in which a create   *)
(* or an update of the user service writes ends the request with 409, and  *)
(* leaves the rows and the identifier counter as they are (so a name sent  *)
(* with the update is not written either), exactly when the trimmed email  *)
(* it would write is the email of another stored user.  The requests       *)
(* meant are those that reach the write: validation (400) and the lookup   *)
(* of the user (404) come first.                                           *)
(***************************************************************************)
C21_EmailUnique ==
    [][/\ \A u \in users : \A v \in users : u.email = v.email => u = v
       /\ \A r \in Req :
            (ureq[r].pc = "insert" /\ ureq'[r] # ureq[r])
            => LET email == PyStrip(ureq[r].body.email.s)
                   dup == \E u \in users : u.email = email
               IN  /\ dup => /\ ureq'[r].pc = "done"
                             /\ ureq'[r].resp = UserConflict
                             /\ users' = users /\ useq' = useq
                   /\ ~dup => /\ ureq'[r].resp.code # 409
                              /\ \E u \in users' \ users : u.email = email
       /\ \A r \in Req :
            (ureq[r].pc = "update" /\ ureq'[r] # ureq[r])
            => LET id == ureq[r].path_id
                   email == PyStrip(PyStr(ureq[r].body.email))
                   dup == /\ Supplied(ureq[r].body.email)
                          /\ SelectUserById(users, id) # NoUserRow
                          /\ \E u \in users : u.id # id /\ u.email = email
               IN  /\ dup => /\ ureq'[r].pc = "done"
                             /\ ureq'[r].resp = UserConflict
                             /\ users' = users /\ useq' = useq
                   /\ ~dup => ureq'[r].resp.code # 409
      ]_vars

\* An update that sent a name and another user's email has ended with 409,
\* and its user still has the old name.
C21_Witness ==
    \E r \in Req :
        /\ ureq[r].op = "update_user"
        /\ ureq[r].resp = UserConflict
        /\ Supplied(ureq[r].body.name)
        /\ LET row == SelectUserById(users, ureq[r].path_id)
           IN  /\ row # NoUserRow
               /\ row.name # PyStrip(PyStr(ureq[r].body.name))
               /\ row.email # PyStrip(PyStr(ureq[r].body.email))

=============================================================================
